---- MODULE Spec2Model ----
(***************************************************************************)
(* A model of nu-ansi-term's style-delta algorithm (src/difference.rs)     *)
(* and of the joined writer of styled fragments (src/display.rs).          *)
(*                                                                         *)
(* Two specifications share the module:                                    *)
(*   SpecDelta  draws a pair of styles and applies compute_delta to it;    *)
(*   Spec       pushes fragments into an AnsiGenericStrings and renders    *)
(*              them with write_to_any, one loop iteration per step.       *)
(***************************************************************************)
EXTENDS Naturals, Sequences, FiniteSets

VARIABLES
    self_style,     \* compute_delta: the receiver (`self`, the style before)
    next_style,     \* compute_delta: the argument (`next`, the style after)
    result,         \* compute_delta: what the call returned, NotCalled before it
    arg,            \* the fragments handed to from_iter / push so far
    contents,       \* AnsiGenericStrings.contents
    style_updates,  \* AnsiGenericStrings.style_updates
    oscontrols,     \* AnsiGenericStrings.oscontrols
    pc,             \* "build" | "render" | "done"
    style_iter,     \* StyleIter: cursor, next_update, current
    content_cursor, \* ContentIter.cursor
    yielded,        \* the commands WriteIter has yielded in this pass
    last_is_plain,  \* write_to_any's local
    out,            \* the writes the sink received, in order
    attempts,       \* the write calls made on the sink, the failing one included
    returned,       \* what the render call returned: "None" (not yet) | "Ok" | "Err"
    single,         \* the fragment written alone by AnsiGenericString::write_to_any
    twin,           \* a second AnsiGenericStrings and its rendering pass
    chain,          \* the delta_next calls of a chain: the style asked and the delta
    stdout,         \* the lines the process has printed on its standard output
    stderr,         \* the values the process has printed on its standard error
    first_out       \* what an earlier rendering pass of the same sequence wrote

deltaVars == <<self_style, next_style, result>>
seqVars == <<arg, contents, style_updates, oscontrols>>
renderVars == <<pc, style_iter, content_cursor, yielded, last_is_plain, out,
                attempts, returned>>
ioVars == <<stdout, stderr>>
vars == <<self_style, next_style, result, arg, contents, style_updates,
          oscontrols, pc, style_iter, content_cursor, yielded, last_is_plain, out,
          attempts, returned, single, twin, chain, stdout, stderr, first_out>>

-----------------------------------------------------------------------------
(* Bounds and input universes *)

MaxFrags == 3

NoColor == "None"
FormatFlagsAll == {"BOLD", "UNDERLINE"}
Colors == {"Red", "Green", "Blue"}
OptColor == Colors \cup {NoColor}

ColoringOf(f, b) == [fg |-> f, bg |-> b]

StyleOf(r, fs, f, b) ==
    [reset_before_style |-> r, formats |-> fs, coloring |-> ColoringOf(f, b)]

\* every style over the flag and colour universes
Styles ==
    { StyleOf(r, fs, f, b) :
        r \in BOOLEAN, fs \in SUBSET FormatFlagsAll,
        f \in OptColor, b \in {NoColor, "Red", "Green"} }

\* the styles fragments are painted with
FragStyles ==
    { StyleOf(FALSE, {}, NoColor, NoColor),
      StyleOf(FALSE, {}, "Green", NoColor),
      StyleOf(FALSE, {}, "Red", NoColor),
      StyleOf(FALSE, {"UNDERLINE"}, "Blue", NoColor),
      StyleOf(FALSE, {"BOLD"}, "Green", NoColor),
      StyleOf(TRUE, {}, "Green", NoColor) }

\* the styles of the fragments written to a sink that may fail
IOStyles ==
    { StyleOf(FALSE, {}, NoColor, NoColor),
      StyleOf(FALSE, {}, "Green", NoColor),
      StyleOf(FALSE, {"UNDERLINE"}, "Blue", NoColor) }

MaxChain == 3

Urls == {"u"}

\* the k-th fragment pushed carries the k-th text
ContentAt(k) == k

-----------------------------------------------------------------------------
(* Style (style.rs): the builder and the predicates the delta engine uses *)

StyleDefault == StyleOf(FALSE, {}, NoColor, NoColor)

is_fg(s) == s.coloring.fg # NoColor

is_bg(s) == s.coloring.bg # NoColor

Style_is_empty(s) == s.formats = {} /\ ~is_fg(s) /\ ~is_bg(s)

is_plain(s) == Style_is_empty(s)

is_reset_before_style(s) == s.reset_before_style

reset_before_style(s) == [s EXCEPT !.reset_before_style = TRUE]

prefix_with_reset(s) == reset_before_style(s)

insert_formats(s, fs) == [s EXCEPT !.formats = s.formats \cup fs]

set_fg(s, c) == [s EXCEPT !.coloring.fg = c]

set_bg(s, c) == [s EXCEPT !.coloring.bg = c]

-----------------------------------------------------------------------------
(* Option<T>: None is the empty sequence, Some(x) the one-element sequence *)

None == <<>>

Some(x) == <<x>>

-----------------------------------------------------------------------------
(* Style::write_prefix (style.rs): the SGR codes of a style's prefix, in the *)
(* order reset, format flags, foreground, background; a style with no code  *)
(* writes nothing                                                           *)

FormatOrder == <<"BOLD", "UNDERLINE">>

FormatCode(f) == IF f = "BOLD" THEN 1 ELSE 4

ColorCode(c) == IF c = "Red" THEN 31 ELSE IF c = "Green" THEN 32 ELSE 34

prefix_codes(s) ==
    LET In(f) == f \in s.formats
        fs == SelectSeq(FormatOrder, In)
    IN  (IF s.reset_before_style THEN <<0>> ELSE <<>>)
        \o [i \in 1..Len(fs) |-> FormatCode(fs[i])]
        \o (IF is_fg(s) THEN <<ColorCode(s.coloring.fg)>> ELSE <<>>)
        \o (IF is_bg(s) THEN <<ColorCode(s.coloring.bg) + 10>> ELSE <<>>)

Sgr(codes) == [kind |-> "sgr", codes |-> codes]

write_prefix(s) == IF prefix_codes(s) = <<>> THEN <<>> ELSE <<Sgr(prefix_codes(s))>>

RESET == Sgr(<<0>>)

-----------------------------------------------------------------------------
(* difference.rs *)

Empty == [tag |-> "Empty"]

PrefixUsing(s) == [tag |-> "PrefixUsing", style |-> s]

NotCalled == [tag |-> "NotCalled"]

BoolColoring_is_empty_both(c) == ~(c.background /\ c.foreground)

BoolColoring_is_empty(c) == ~(c.background \/ c.foreground)

BoolColoring_from(coloring) ==
    [foreground |-> coloring.fg # NoColor, background |-> coloring.bg # NoColor]

bool_not(b) == ~b

bool_conjunction(a, b) == a /\ b

bool_turned_on(before, after) == bool_conjunction(bool_not(before), after)

bool_turned_off(before, after) == bool_conjunction(before, bool_not(after))

BoolColoring_not(c) ==
    [foreground |-> bool_not(c.foreground), background |-> bool_not(c.background)]

BoolColoring_conjunction(a, b) ==
    [foreground |-> bool_conjunction(a.foreground, b.foreground),
     background |-> bool_conjunction(a.background, b.background)]

BoolColoring_turned_on(before, after) ==
    BoolColoring_conjunction(BoolColoring_not(before), after)

BoolColoring_turned_off(before, after) ==
    BoolColoring_conjunction(before, BoolColoring_not(after))

FormatFlags_not(fs) == FormatFlagsAll \ fs

FormatFlags_conjunction(a, b) == a \cap b

FormatFlags_turned_on(before, after) ==
    FormatFlags_conjunction(FormatFlags_not(before), after)

FormatFlags_turned_off(before, after) ==
    FormatFlags_conjunction(before, FormatFlags_not(after))

BoolStyle_not(s) ==
    [reset_before_style |-> bool_not(s.reset_before_style),
     formats |-> FormatFlags_not(s.formats),
     coloring |-> BoolColoring_not(s.coloring)]

BoolStyle_conjunction(a, b) ==
    [reset_before_style |-> bool_conjunction(a.reset_before_style, b.reset_before_style),
     formats |-> FormatFlags_conjunction(a.formats, b.formats),
     coloring |-> BoolColoring_conjunction(a.coloring, b.coloring)]

BoolStyle_turned_on_no_complement(before, after) ==
    BoolStyle_conjunction(before, after)

BoolStyle_turned_on(before, after) ==
    BoolStyle_conjunction(BoolStyle_not(before), after)

BoolStyle_turned_off_swapped(before, after) ==
    BoolStyle_conjunction(after, BoolStyle_not(before))

BoolStyle_turned_off(before, after) ==
    BoolStyle_conjunction(before, BoolStyle_not(after))

BoolStyle_from(style) ==
    [reset_before_style |-> style.reset_before_style,
     formats |-> style.formats,
     coloring |-> BoolColoring_from(style.coloring)]

\* compute_delta, lines 148-156: the minimal additive style
additive_delta(self, next) ==
    LET turned_on_from_self ==
            BoolStyle_turned_on(BoolStyle_from(self), BoolStyle_from(next))
        r0 == insert_formats(StyleDefault, turned_on_from_self.formats)
        r1 == IF is_fg(self) # is_fg(next) THEN set_fg(r0, next.coloring.fg) ELSE r0
        r2 == IF is_bg(self) # is_bg(next) THEN set_bg(r1, next.coloring.bg) ELSE r1
    IN  PrefixUsing(r2)

\* compute_delta, lines 146-147: nothing that was on is turned off
nothing_turned_off(self, next) ==
    LET turned_off_in_next ==
            BoolStyle_turned_off(BoolStyle_from(self), BoolStyle_from(next))
    IN  turned_off_in_next.formats = {}
        /\ BoolColoring_is_empty(turned_off_in_next.coloring)

compute_delta_no_equality_test(self, next) ==
    IF (Style_is_empty(next) /\ ~Style_is_empty(self)) \/ is_reset_before_style(next)
    THEN PrefixUsing(reset_before_style(next))
    ELSE IF nothing_turned_off(self, next)
         THEN additive_delta(self, next)
         ELSE PrefixUsing(reset_before_style(next))

compute_delta_reset_not_forced(self, next) ==
    IF self = next
    THEN Empty
    ELSE IF (Style_is_empty(next) /\ ~Style_is_empty(self)) \/ is_reset_before_style(next)
    THEN PrefixUsing(next)
    ELSE IF nothing_turned_off(self, next)
         THEN additive_delta(self, next)
         ELSE PrefixUsing(reset_before_style(next))

compute_delta(self, next) ==
    IF self = next
    THEN Empty
    ELSE IF (Style_is_empty(next) /\ ~Style_is_empty(self)) \/ is_reset_before_style(next)
    THEN PrefixUsing(reset_before_style(next))
    ELSE IF nothing_turned_off(self, next)
         THEN additive_delta(self, next)
         ELSE PrefixUsing(reset_before_style(next))

delta_next(delta, next) ==
    IF delta.tag = "PrefixUsing"
    THEN compute_delta(delta.style, next)
    ELSE PrefixUsing(next)

no_prints == [stdout |-> <<>>, stderr |-> <<>>]

\* compute_delta's println!("computing delta") and dbg!(self, next)
compute_delta_prints(self, next) ==
    [stdout |-> <<"computing delta">>,
     stderr |-> <<[expr |-> "self", value |-> self],
                  [expr |-> "next", value |-> next]>>]

\* what the compute_delta call of delta_next prints, if it makes one
delta_next_prints(delta, next) ==
    IF delta.tag = "PrefixUsing"
    THEN compute_delta_prints(delta.style, next)
    ELSE no_prints

-----------------------------------------------------------------------------
(* display.rs: fragments, the run encoder and its iterators *)

Title == [tag |-> "Title"]

Link(u) == [tag |-> "Link", url |-> u]

OSControls == {None, Some(Title)} \cup { Some(Link(u)) : u \in Urls }

AnsiGenericString(style, content, oscontrol) ==
    [style |-> style, content |-> content, oscontrol |-> oscontrol]

DoNothing == [tag |-> "DoNothing"]

Prefix(s) == [tag |-> "Prefix", style |-> s]

\* UpdateCommand::update_relative: the delta engine's chaining step on commands
update_relative(command, next) ==
    LET d == delta_next(IF command.tag = "Prefix"
                        THEN PrefixUsing(command.style) ELSE Empty, next)
    IN  IF d.tag = "PrefixUsing" THEN Prefix(d.style) ELSE DoNothing

update_relative_prints(command, next) ==
    delta_next_prints(IF command.tag = "Prefix"
                      THEN PrefixUsing(command.style) ELSE Empty, next)

StyleUpdate(begins_at, command) == [command |-> command, begins_at |-> begins_at]

\* Vec::get with the source's 0-based index
get(v, i) == IF i < Len(v) THEN Some(v[i + 1]) ELSE None

push_content_at_front(cs, content) ==
    [contents |-> <<content>> \o cs, index |-> Len(cs) + 1]

push_content(cs, content) == [contents |-> Append(cs, content), index |-> Len(cs) + 1]

push_style_first_always_prefix(updates, next, begins_at) ==
    LET instructions ==
            IF updates # <<>>
            THEN update_relative(updates[Len(updates)].command, next)
            ELSE Prefix(next)
    IN  Append(updates, StyleUpdate(begins_at, instructions))

push_style(updates, next, begins_at) ==
    LET instructions ==
            IF updates # <<>>
            THEN update_relative(updates[Len(updates)].command, next)
            ELSE IF is_plain(next) THEN DoNothing ELSE Prefix(next)
    IN  Append(updates, StyleUpdate(begins_at, instructions))

\* what push_style prints through update_relative
push_style_prints(updates, next) ==
    IF updates # <<>>
    THEN update_relative_prints(updates[Len(updates)].command, next)
    ELSE no_prints

push_oscontrol_skips_none(oscs, oscontrol) ==
    IF oscontrol = None THEN oscs ELSE Append(oscs, oscontrol)

push_oscontrol(oscs, oscontrol) == Append(oscs, oscontrol)

write_iter == [cursor |-> 0, next_update |-> None, current |-> None]

\* StyleIter::next: the iterator after the call and the item it returns
StyleIter_next(it, instructions) ==
    LET r == IF it.current = None /\ it.next_update = None
             THEN LET cur == get(instructions, it.cursor)
                  IN  [it |-> [cursor |-> it.cursor + 1,
                               next_update |-> get(instructions, it.cursor + 1),
                               current |-> cur],
                       item |-> cur]
             ELSE IF it.next_update # None
             THEN IF it.cursor < it.next_update[1].begins_at
                  THEN [it |-> it, item |-> it.current]
                  ELSE [it |-> [cursor |-> it.cursor + 1,
                                next_update |-> get(instructions, it.cursor + 1),
                                current |-> it.next_update],
                        item |-> it.next_update]
             ELSE [it |-> it, item |-> it.current]
    IN  [it |-> r.it,
         item |-> IF r.item = None THEN None ELSE Some(r.item[1].command)]

\* ContentIter::next
ContentIter_next(cursor, cs, oscs) ==
    LET c == get(cs, cursor)
    IN  [cursor |-> IF c # None THEN cursor + 1 ELSE cursor,
         item |-> IF c = None THEN None
                  ELSE Some([content |-> c[1],
                             oscontrol |-> IF get(oscs, cursor) = None
                                           THEN None ELSE get(oscs, cursor)[1]])]

unwrap_or_default(o) == IF o = None THEN DoNothing ELSE o[1]

-----------------------------------------------------------------------------
(* display.rs: the writers *)

Str(text) == [kind |-> "str", text |-> text]

Content(c) == [kind |-> "content", text |-> c]

Url(u) == [kind |-> "url", text |-> u]

write_inner_link_left_open(content, oscontrol) ==
    IF oscontrol = None THEN <<Content(content)>>
    ELSE IF oscontrol[1].tag = "Link"
    THEN <<Str("ESC]8;;"), Url(oscontrol[1].url), Str("ESC\\"), Content(content)>>
    ELSE <<Str("ESC]2;"), Content(content), Str("ESC\\")>>

\* write_inner: the writes it makes, in order
write_inner(content, oscontrol) ==
    IF oscontrol = None THEN <<Content(content)>>
    ELSE IF oscontrol[1].tag = "Link"
    THEN <<Str("ESC]8;;"), Url(oscontrol[1].url), Str("ESC\\"),
           Content(content), Str("ESC]8;;ESC\\")>>
    ELSE <<Str("ESC]2;"), Content(content), Str("ESC\\")>>

last_is_plain_at_start_false == FALSE

\* write_to_any, line 572
last_is_plain_at_start == TRUE

trailing_reset_always(last_plain) == write_prefix(prefix_with_reset(StyleDefault))

\* write_to_any, lines 585-589: what follows the loop
trailing_reset(last_plain) ==
    IF last_plain THEN <<>> ELSE write_prefix(prefix_with_reset(StyleDefault))

-----------------------------------------------------------------------------
(* display.rs: push and the two writers as functions of the state they act on *)

\* Style::suffix (style.rs): the reset, or nothing for the plain style
suffix(s) == IF is_plain(s) THEN <<>> ELSE <<RESET>>

\* AnsiGenericStrings::empty
empty == [contents |-> <<>>, style_updates |-> <<>>, oscontrols |-> <<>>]

push_without_style_for_title(seq, s) ==
    LET pushed == push_content(seq.contents, s.content)
    IN  [contents |-> pushed.contents,
         style_updates |->
             push_style(seq.style_updates,
                        IF s.oscontrol = Some(Title) THEN StyleDefault ELSE s.style,
                        pushed.index),
         oscontrols |-> push_oscontrol(seq.oscontrols, s.oscontrol)]

\* AnsiGenericStrings::push
push(seq, s) ==
    LET pushed == push_content(seq.contents, s.content)
    IN  [contents |-> pushed.contents,
         style_updates |-> push_style(seq.style_updates, s.style, pushed.index),
         oscontrols |-> push_oscontrol(seq.oscontrols, s.oscontrol)]

\* a sink whose error is dropped: the writes after the failing one are made
sink_write_error_ignored(sink, tokens, fail) ==
    IF fail = 0
    THEN [out |-> sink.out \o tokens, attempts |-> sink.attempts + Len(tokens),
          ok |-> TRUE]
    ELSE [out |-> sink.out \o SubSeq(tokens, 1, fail - 1)
                    \o SubSeq(tokens, fail + 1, Len(tokens)),
          attempts |-> sink.attempts + Len(tokens), ok |-> FALSE]

\* The sink. fail = 0: every write of `tokens` succeeds; fail = k > 0: the k-th
\* of them returns an error, which `?` hands to the caller at once.
sink_write(sink, tokens, fail) ==
    IF fail = 0
    THEN [out |-> sink.out \o tokens, attempts |-> sink.attempts + Len(tokens),
          ok |-> TRUE]
    ELSE [out |-> sink.out \o SubSeq(tokens, 1, fail - 1),
          attempts |-> sink.attempts + fail, ok |-> FALSE]

\* the writes one after the other, each with `?`
write_all(sink, tokens, fail) == sink_write(sink, tokens, fail)

\* a rendering pass that has not begun
no_pass ==
    [pc |-> "build", style_iter |-> write_iter, content_cursor |-> 0,
     yielded |-> <<>>, last_is_plain |-> TRUE, out |-> <<>>, attempts |-> 0,
     returned |-> "None"]

\* write_to_any up to its loop: write_iter() and last_is_plain
start_pass ==
    [no_pass EXCEPT !.pc = "render", !.last_is_plain = last_is_plain_at_start]

\* WriteIter::next
WriteIter_next(p, seq) ==
    LET c == ContentIter_next(p.content_cursor, seq.contents, seq.oscontrols)
        st == StyleIter_next(p.style_iter, seq.style_updates)
    IN  IF c.item = None
        THEN [content_cursor |-> c.cursor, style_iter |-> p.style_iter, item |-> None]
        ELSE [content_cursor |-> c.cursor, style_iter |-> st.it,
              item |-> Some([command |-> unwrap_or_default(st.item),
                             content |-> c.item[1].content,
                             oscontrol |-> c.item[1].oscontrol])]

\* the writes of one iteration of the loop: the prefix, then write_inner
loop_prefix(item) ==
    IF item.command.tag = "Prefix" THEN write_prefix(item.command.style) ELSE <<>>

loop_writes(p, seq) ==
    LET n == WriteIter_next(p, seq)
    IN  IF n.item = None THEN <<>>
        ELSE loop_prefix(n.item[1]) \o write_inner(n.item[1].content, n.item[1].oscontrol)

\* one iteration of write_to_any's loop, the `fail`-th of its writes failing
loop_body(p, seq, fail) ==
    LET n == WriteIter_next(p, seq)
        item == n.item[1]
        w == write_all([out |-> p.out, attempts |-> p.attempts], loop_writes(p, seq), fail)
        prefix_written == fail = 0 \/ fail > Len(loop_prefix(item))
    IN  [pc |-> IF w.ok THEN "render" ELSE "done",
         style_iter |-> n.style_iter,
         content_cursor |-> n.content_cursor,
         yielded |-> Append(p.yielded, item.command),
         last_is_plain |-> IF item.command.tag = "Prefix" /\ prefix_written
                           THEN is_plain(item.command.style)
                           ELSE p.last_is_plain,
         out |-> w.out,
         attempts |-> w.attempts,
         returned |-> IF w.ok THEN "None" ELSE "Err"]

\* write_to_any after its loop
after_loop(p, fail) ==
    LET w == write_all([out |-> p.out, attempts |-> p.attempts],
                       trailing_reset(p.last_is_plain), fail)
    IN  [p EXCEPT !.pc = "done", !.out = w.out, !.attempts = w.attempts,
                  !.returned = IF w.ok THEN "Ok" ELSE "Err"]

single_writes_inner_first(s) ==
    write_inner(s.content, s.oscontrol) \o write_prefix(s.style) \o suffix(s.style)

\* AnsiGenericString::write_to_any: the writes of a fragment written alone
single_writes(s) ==
    write_prefix(s.style) \o write_inner(s.content, s.oscontrol) \o suffix(s.style)

-----------------------------------------------------------------------------
(* The initial states *)

Strings == [contents |-> contents, style_updates |-> style_updates, oscontrols |-> oscontrols]

Writing ==
    [pc |-> pc, style_iter |-> style_iter, content_cursor |-> content_cursor,
     yielded |-> yielded, last_is_plain |-> last_is_plain, out |-> out,
     attempts |-> attempts, returned |-> returned]

SetSeq(n) ==
    /\ contents' = n.contents
    /\ style_updates' = n.style_updates
    /\ oscontrols' = n.oscontrols

SetPass(n) ==
    /\ pc' = n.pc
    /\ style_iter' = n.style_iter
    /\ content_cursor' = n.content_cursor
    /\ yielded' = n.yielded
    /\ last_is_plain' = n.last_is_plain
    /\ out' = n.out
    /\ attempts' = n.attempts
    /\ returned' = n.returned

\* the process prints `p` after what it has printed
Prints(p) ==
    /\ stdout' = stdout \o p.stdout
    /\ stderr' = stderr \o p.stderr

NoTwin == [seq |-> empty, pass |-> no_pass]

EncoderIdle ==
    /\ arg = <<>>
    /\ contents = empty.contents
    /\ style_updates = empty.style_updates
    /\ oscontrols = empty.oscontrols
    /\ pc = no_pass.pc
    /\ style_iter = no_pass.style_iter
    /\ content_cursor = no_pass.content_cursor
    /\ yielded = no_pass.yielded
    /\ last_is_plain = no_pass.last_is_plain
    /\ out = no_pass.out
    /\ attempts = no_pass.attempts
    /\ returned = no_pass.returned
    /\ single = None
    /\ twin = NoTwin
    /\ stdout = no_prints.stdout
    /\ stderr = no_prints.stderr
    /\ first_out = None

DeltaIdle ==
    /\ self_style = StyleDefault
    /\ next_style = StyleDefault
    /\ result = NotCalled
    /\ chain = <<>>

-----------------------------------------------------------------------------
(* SpecDelta: compute_delta and the Difference operations applied to every *)
(* pair of styles                                                          *)

InitDelta ==
    /\ self_style \in Styles
    /\ next_style \in Styles
    /\ result = NotCalled
    /\ chain = <<>>
    /\ EncoderIdle

CallComputeDelta ==
    /\ result = NotCalled
    /\ result' = compute_delta(self_style, next_style)
    /\ Prints(compute_delta_prints(self_style, next_style))
    /\ UNCHANGED <<self_style, next_style, seqVars, renderVars, single, twin, chain,
                   first_out>>

\* turned_on(before, after) and turned_off(after, before) of each implementor
CallTurned ==
    /\ result = NotCalled
    /\ LET b == BoolStyle_from(self_style)
           a == BoolStyle_from(next_style)
       IN  result' =
             [tag |-> "Turned",
              on |-> [style |-> BoolStyle_turned_on(b, a),
                      coloring |-> BoolColoring_turned_on(b.coloring, a.coloring),
                      formats |-> FormatFlags_turned_on(b.formats, a.formats),
                      bool |-> bool_turned_on(b.reset_before_style, a.reset_before_style)],
              off |-> [style |-> BoolStyle_turned_off(a, b),
                       coloring |-> BoolColoring_turned_off(a.coloring, b.coloring),
                       formats |-> FormatFlags_turned_off(a.formats, b.formats),
                       bool |-> bool_turned_off(a.reset_before_style, b.reset_before_style)]]
    /\ UNCHANGED <<self_style, next_style, seqVars, renderVars, single, twin, chain,
                   ioVars, first_out>>

NextDelta == CallComputeDelta \/ CallTurned

SpecDelta == InitDelta /\ [][NextDelta]_vars

-----------------------------------------------------------------------------
(* SpecChain: a chain of delta_next calls, begun from StyleDelta::default() *)

InitChain == DeltaIdle /\ EncoderIdle

ChainNext(next) ==
    /\ Len(chain) < MaxChain
    /\ LET previous == IF chain = <<>> THEN Empty ELSE chain[Len(chain)].delta
       IN  /\ chain' = Append(chain, [next |-> next, delta |-> delta_next(previous, next)])
           /\ Prints(delta_next_prints(previous, next))
    /\ UNCHANGED <<self_style, next_style, result, seqVars, renderVars, single, twin,
                   first_out>>

NextChain == \E next \in FragStyles : ChainNext(next)

SpecChain == InitChain /\ [][NextChain]_vars

-----------------------------------------------------------------------------
(* Spec: push fragments, then render them to a sink that takes every write; *)
(* or write one fragment alone                                              *)

Init == DeltaIdle /\ EncoderIdle

\* AnsiGenericStrings::push, as from_iter calls it for each fragment
Push(s) ==
    /\ pc = "build"
    /\ Len(arg) < MaxFrags
    /\ SetSeq(push(Strings, s))
    /\ Prints(push_style_prints(style_updates, s.style))
    /\ arg' = Append(arg, s)
    /\ UNCHANGED <<deltaVars, renderVars, single, twin, chain, first_out>>

\* write_to_any up to its loop
StartRender ==
    /\ pc = "build"
    /\ SetPass(start_pass)
    /\ UNCHANGED <<deltaVars, seqVars, single, twin, chain, ioVars, first_out>>

\* one iteration of write_to_any's loop: WriteIter::next, the prefix, write_inner
RenderItem(fail) ==
    /\ pc = "render"
    /\ WriteIter_next(Writing, Strings).item # None
    /\ fail <= Len(loop_writes(Writing, Strings))
    /\ SetPass(loop_body(Writing, Strings, fail))
    /\ UNCHANGED <<deltaVars, seqVars, single, twin, chain, ioVars, first_out>>

\* the loop ends and the trailing reset is written if one is due
RenderEnd(fail) ==
    /\ pc = "render"
    /\ WriteIter_next(Writing, Strings).item = None
    /\ fail <= Len(trailing_reset(last_is_plain))
    /\ SetPass(after_loop(Writing, fail))
    /\ UNCHANGED <<deltaVars, seqVars, single, twin, chain, ioVars, first_out>>

\* AnsiGenericString::write_to_any of a fragment that is in no sequence; it
\* reads nothing of the sequence, and is explored from the empty one
WriteSingle(s, fail) ==
    /\ pc = "build"
    /\ arg = <<>>
    /\ fail <= Len(single_writes(s))
    /\ single' = Some(s)
    /\ LET w == write_all([out |-> out, attempts |-> attempts], single_writes(s), fail)
       IN  /\ out' = w.out
           /\ attempts' = w.attempts
           /\ returned' = IF w.ok THEN "Ok" ELSE "Err"
    /\ pc' = "single_done"
    /\ UNCHANGED <<deltaVars, seqVars, style_iter, content_cursor, yielded,
                   last_is_plain, twin, chain, ioVars, first_out>>

Fragments(styles) ==
    { AnsiGenericString(st, ContentAt(Len(arg) + 1), osc) :
        st \in styles, osc \in OSControls }

Next ==
    \/ \E s \in Fragments(FragStyles) : Push(s)
    \/ StartRender
    \/ RenderItem(0)
    \/ RenderEnd(0)
    \/ \E s \in Fragments(FragStyles) : WriteSingle(s, 0)

Spec == Init /\ [][Next]_vars

-----------------------------------------------------------------------------
(* SpecIO: the same operations on a sink any write of which may fail *)

\* no step of a writer makes more writes than a styled Link written alone
MaxStepWrites == 7

NextIO ==
    \/ \E s \in Fragments(IOStyles) : Push(s)
    \/ StartRender
    \/ \E fail \in 0..MaxStepWrites : RenderItem(fail)
    \/ \E fail \in 0..MaxStepWrites : RenderEnd(fail)
    \/ \E s \in Fragments(IOStyles), fail \in 0..MaxStepWrites : WriteSingle(s, fail)

SpecIO == Init /\ [][NextIO]_vars

-----------------------------------------------------------------------------
(* SpecTwin: every sequence is pushed and rendered side by side with its   *)
(* twin, which has the same styles, other contents and no annotation. Two  *)
(* sequences with the same styles have the same twin.                      *)

TwinOf(s) == AnsiGenericString(s.style, 0, None)

PushBoth(s) ==
    /\ pc = "build"
    /\ Len(arg) < MaxFrags
    /\ SetSeq(push(Strings, s))
    /\ arg' = Append(arg, s)
    /\ twin' = [twin EXCEPT !.seq = push(twin.seq, TwinOf(s))]
    /\ LET first == push_style_prints(style_updates, s.style)
           second == push_style_prints(twin.seq.style_updates, s.style)
       IN  Prints([stdout |-> first.stdout \o second.stdout,
                   stderr |-> first.stderr \o second.stderr])
    /\ UNCHANGED <<deltaVars, renderVars, single, chain, first_out>>

StartRenderBoth ==
    /\ pc = "build"
    /\ SetPass(start_pass)
    /\ twin' = [twin EXCEPT !.pass = start_pass]
    /\ UNCHANGED <<deltaVars, seqVars, single, chain, ioVars, first_out>>

RenderItemBoth ==
    /\ pc = "render"
    /\ WriteIter_next(Writing, Strings).item # None
    /\ SetPass(loop_body(Writing, Strings, 0))
    /\ twin' = [twin EXCEPT !.pass = loop_body(twin.pass, twin.seq, 0)]
    /\ UNCHANGED <<deltaVars, seqVars, single, chain, ioVars, first_out>>

RenderEndBoth ==
    /\ pc = "render"
    /\ WriteIter_next(Writing, Strings).item = None
    /\ SetPass(after_loop(Writing, 0))
    /\ twin' = [twin EXCEPT !.pass = after_loop(twin.pass, 0)]
    /\ UNCHANGED <<deltaVars, seqVars, single, chain, ioVars, first_out>>

NextTwin ==
    \/ \E s \in Fragments(FragStyles) : PushBoth(s)
    \/ StartRenderBoth
    \/ RenderItemBoth
    \/ RenderEndBoth

SpecTwin == Init /\ [][NextTwin]_vars

-----------------------------------------------------------------------------
(* SpecAgain: a sequence is rendered, and then rendered a second time *)

\* a second write_to_any on the same sequence, after the first has returned
RenderAgain ==
    /\ pc = "done"
    /\ first_out = None
    /\ first_out' = Some(out)
    /\ SetPass(start_pass)
    /\ UNCHANGED <<deltaVars, seqVars, single, twin, chain, ioVars>>

NextAgain ==
    \/ \E s \in Fragments(IOStyles) : Push(s)
    \/ StartRender
    \/ RenderItem(0)
    \/ RenderEnd(0)
    \/ RenderAgain

SpecAgain == Init /\ [][NextAgain]_vars

-----------------------------------------------------------------------------
(* SpecOne: the sequences of one fragment, of any style *)

NextOne ==
    \/ \E s \in Fragments(Styles) : arg = <<>> /\ Push(s)
    \/ StartRender
    \/ RenderItem(0)
    \/ RenderEnd(0)

SpecOne == Init /\ [][NextOne]_vars

-----------------------------------------------------------------------------
(* The delta engine's claims, checked under SpecDelta *)

Called == result.tag \in {"Empty", "PrefixUsing"}

\* what a terminal shows: its format flags and its two colours
Shows(s) == [formats |-> s.formats, fg |-> s.coloring.fg, bg |-> s.coloring.bg]

\* one SGR code acting on a terminal: 0 clears all, a flag code turns the
\* flag on, a colour code replaces that colour
ApplyCode(t, c) ==
    IF c = 0 THEN [formats |-> {}, fg |-> NoColor, bg |-> NoColor]
    ELSE IF c = 1 THEN [t EXCEPT !.formats = @ \cup {"BOLD"}]
    ELSE IF c = 4 THEN [t EXCEPT !.formats = @ \cup {"UNDERLINE"}]
    ELSE IF c \in {31, 32, 34}
    THEN [t EXCEPT !.fg = CHOOSE k \in Colors : ColorCode(k) = c]
    ELSE [t EXCEPT !.bg = CHOOSE k \in Colors : ColorCode(k) + 10 = c]

RECURSIVE ApplyCodes(_, _)
ApplyCodes(t, codes) ==
    IF codes = <<>> THEN t
    ELSE ApplyCodes(ApplyCode(t, Head(codes)), Tail(codes))

\* the terminal after the prefix a delta carries has been written to it
ApplyDelta(t, d) ==
    IF d.tag = "PrefixUsing" THEN ApplyCodes(t, prefix_codes(d.style)) ELSE t

\* some format flag or colour is present in `before` and absent in `after`
Removes(before, after) ==
    \/ before.formats \ after.formats # {}
    \/ before.coloring.fg # NoColor /\ after.coloring.fg = NoColor
    \/ before.coloring.bg # NoColor /\ after.coloring.bg = NoColor

\* C1: compute_delta(s, s) returns Empty for every style s, forceReset on
\* or off.
C1_SameStyleIsEmpty ==
    (Called /\ self_style = next_style) => result = Empty

C1_Witness ==
    /\ Called
    /\ self_style = next_style
    /\ self_style.reset_before_style
    /\ ~is_plain(self_style)

\* C2: a terminal showing `before` that receives the prefix carried by
\* compute_delta(before, after) shows after's flags, foreground and background.
C2_DeltaReachesAfter ==
    Called => ApplyDelta(Shows(self_style), result) = Shows(next_style)

\* C3: from a non-plain style to the plain style the delta is
\* PrefixUsing(plain with forceReset on), and its prefix is exactly ESC[0m.
C3_ResetOnReturnToPlain ==
    (Called /\ ~is_plain(self_style) /\ is_plain(next_style)) =>
        /\ result = PrefixUsing(StyleOf(TRUE, {}, NoColor, NoColor))
        /\ write_prefix(result.style) = <<RESET>>

C3_Witness ==
    /\ Called
    /\ ~is_plain(self_style)
    /\ next_style = StyleDefault
    /\ result.tag = "PrefixUsing"

\* C4: when before # after and a flag or colour of `before` is absent in
\* `after`, the delta is PrefixUsing(after with forceReset on), carrying all
\* of after's flags and colours.
C4_FallbackOnRemoval ==
    (Called /\ self_style # next_style /\ Removes(self_style, next_style)) =>
        /\ result = PrefixUsing([next_style EXCEPT !.reset_before_style = TRUE])
        /\ result.style.formats = next_style.formats
        /\ result.style.coloring = next_style.coloring

C4_Witness ==
    /\ Called
    /\ ~next_style.reset_before_style
    /\ ~is_plain(next_style)
    /\ self_style.coloring.fg # NoColor
    /\ next_style.coloring.fg = NoColor
    /\ self_style.formats \subseteq next_style.formats
    /\ result.tag = "PrefixUsing"

\* C5: when before # after, `after` has no forceReset and nothing of `before`
\* is absent in `after`, the delta is PrefixUsing(r) with r.forceReset off,
\* r's flags exactly those in `after` and not in `before`, and r carrying a
\* foreground (background) only when after's differs from before's.
C5_AdditiveMinimality ==
    (/\ Called
     /\ self_style # next_style
     /\ ~next_style.reset_before_style
     /\ ~Removes(self_style, next_style)) =>
        /\ result.tag = "PrefixUsing"
        /\ ~result.style.reset_before_style
        /\ result.style.formats = next_style.formats \ self_style.formats
        /\ (result.style.coloring.fg # NoColor =>
                next_style.coloring.fg # self_style.coloring.fg)
        /\ (result.style.coloring.bg # NoColor =>
                next_style.coloring.bg # self_style.coloring.bg)

C5_Witness ==
    /\ Called
    /\ self_style.formats = {"BOLD"}
    /\ next_style.formats = {"BOLD", "UNDERLINE"}
    /\ self_style.coloring.fg = NoColor
    /\ next_style.coloring.fg = "Blue"
    /\ ~next_style.reset_before_style
    /\ result.tag = "PrefixUsing"
    /\ result.style.formats = {"UNDERLINE"}

\* C6: when both styles have a foreground, the two differ and nothing is
\* turned off, the delta is PrefixUsing of a style whose foreground is
\* after's foreground; likewise for a replaced background.
C6_ReplacedColorCarried ==
    (/\ Called
     /\ ~Removes(self_style, next_style)) =>
        /\ (/\ self_style.coloring.fg # NoColor
            /\ next_style.coloring.fg # NoColor
            /\ self_style.coloring.fg # next_style.coloring.fg) =>
                /\ result.tag = "PrefixUsing"
                /\ result.style.coloring.fg = next_style.coloring.fg
        /\ (/\ self_style.coloring.bg # NoColor
            /\ next_style.coloring.bg # NoColor
            /\ self_style.coloring.bg # next_style.coloring.bg) =>
                /\ result.tag = "PrefixUsing"
                /\ result.style.coloring.bg = next_style.coloring.bg

-----------------------------------------------------------------------------
(* The joined writer's claims, checked under Spec *)

Rendered == pc = "done"

\* the position in `out` of the write of the i-th fragment's content
ContentWrites == { k \in 1..Len(out) : out[k].kind = "content" }

ContentIdx(i) ==
    CHOOSE k \in ContentWrites : Cardinality({ j \in ContentWrites : j <= k }) = i

IsSgr(t) == t.kind = "sgr"

\* the SGR writes between the content of fragment i-1 (or the start) and the
\* content of fragment i
SgrBefore(i) ==
    LET lo == IF i = 1 THEN 0 ELSE ContentIdx(i - 1)
    IN  SelectSeq(SubSeq(out, lo + 1, ContentIdx(i) - 1), IsSgr)

\* the writes after the content of the last fragment
AfterLastContent ==
    SubSeq(out, ContentIdx(Cardinality(ContentWrites)) + 1, Len(out))

\* the prefix a delta stands for
DeltaPrefix(d) == IF d.tag = "PrefixUsing" THEN write_prefix(d.style) ELSE <<>>

Inner(f) == write_inner(f.content, f.oscontrol)

\* the part of write_inner(f) that follows the content
InnerTail(f) ==
    LET w == Inner(f)
        k == CHOOSE j \in 1..Len(w) : w[j].kind = "content"
    IN  SubSeq(w, k + 1, Len(w))

RECURSIVE Inners(_)
Inners(fs) == IF fs = <<>> THEN <<>> ELSE Inner(Head(fs)) \o Inners(Tail(fs))

\* C7: for every position i > 0 of a rendered sequence, the style code written
\* before fragment i's content is the prefix of the delta from fragment i-1's
\* style to fragment i's style (nothing when the delta is Empty).
C7_PrefixIsDeltaFromPrevious ==
    Rendered =>
        /\ Cardinality(ContentWrites) = Len(arg)
        /\ \A i \in 2..Len(arg) :
              SgrBefore(i) = DeltaPrefix(compute_delta(arg[i - 1].style, arg[i].style))

\* C8: the output of a non-empty sequence ends with ESC[0m when the last
\* fragment's style is non-plain, and has nothing after the last fragment's
\* annotation-wrapped content when it is plain.
C8_TrailingReset ==
    (Rendered /\ arg # <<>>) =>
        LET last == arg[Len(arg)]
        IN  /\ Cardinality(ContentWrites) = Len(arg)
            /\ IF is_plain(last.style)
               THEN AfterLastContent = InnerTail(last)
               ELSE AfterLastContent = InnerTail(last) \o <<RESET>>

C10_PlainBoundaries ==
    Rendered =>
        /\ (/\ Len(arg) = 3
            /\ ~is_plain(arg[1].style)
            /\ arg[2].style = StyleDefault
            /\ ~is_plain(arg[3].style)) =>
               out = write_prefix(arg[1].style) \o Inner(arg[1]) \o <<RESET>>
                     \o Inner(arg[2])
                     \o write_prefix(arg[3].style) \o Inner(arg[3]) \o <<RESET>>
        /\ (/\ Len(arg) = 2
            /\ ~is_plain(arg[1].style)
            /\ arg[2].style = StyleDefault) =>
               out = write_prefix(arg[1].style) \o Inner(arg[1]) \o <<RESET>>
                     \o Inner(arg[2])
        /\ (/\ Len(arg) = 2
            /\ arg[1].style = StyleDefault
            /\ ~is_plain(arg[2].style)) =>
               out = Inner(arg[1])
                     \o write_prefix(arg[2].style) \o Inner(arg[2]) \o <<RESET>>

-----------------------------------------------------------------------------
(* The claims on forced resets, annotations, sink errors and the iterators *)

Single == pc = "single_done"

\* C11: in a rendered sequence every fragment whose style has forceReset on
\* has its reset-carrying prefix (ESC[0m, then the style's own codes) written
\* before its content, whatever the style of the fragment before it.
C11_ForcedResetIsWritten ==
    Rendered =>
        /\ Cardinality(ContentWrites) = Len(arg)
        /\ \A i \in 1..Len(arg) :
              arg[i].style.reset_before_style =>
                  /\ SgrBefore(i) = write_prefix(arg[i].style)
                  /\ SgrBefore(i)[1].codes[1] = 0

\* C12: a fragment written alone is its style prefix, then its annotation-
\* wrapped content, then its style suffix; in a rendered sequence the writes
\* of write_inner for a fragment are contiguous, so a prefix comes before the
\* annotation opening and a reset after the annotation closing.
C12_StyleWrapsAnnotation ==
    /\ Single =>
          (returned = "Ok" =>
              out = write_prefix(single[1].style) \o Inner(single[1])
                    \o suffix(single[1].style))
    /\ Rendered =>
          \A i \in 1..Len(arg) :
              LET w == Inner(arg[i])
                  opening == Len(w) - Len(InnerTail(arg[i])) - 1
                  k == ContentIdx(i)
              IN  /\ k > opening
                  /\ SubSeq(out, k - opening, k + Len(InnerTail(arg[i]))) = w

C12_Witness ==
    /\ Rendered
    /\ Len(arg) = 2
    /\ ~is_plain(arg[1].style)
    /\ arg[1].oscontrol = Some(Link("u"))
    /\ arg[2].oscontrol = Some(Link("u"))
    /\ out[1].kind = "sgr"
    /\ out[Len(out)] = RESET
    /\ Len(out) = 13

\* what write_inner is to write for a content and an annotation
AnnotationWrapped(content, oscontrol) ==
    IF oscontrol = None
    THEN <<[kind |-> "content", text |-> content]>>
    ELSE IF oscontrol = <<[tag |-> "Title"]>>
    THEN <<[kind |-> "str", text |-> "ESC]2;"],
           [kind |-> "content", text |-> content],
           [kind |-> "str", text |-> "ESC\\"]>>
    ELSE <<[kind |-> "str", text |-> "ESC]8;;"],
           [kind |-> "url", text |-> oscontrol[1].url],
           [kind |-> "str", text |-> "ESC\\"],
           [kind |-> "content", text |-> content],
           [kind |-> "str", text |-> "ESC]8;;ESC\\"]>>

\* C13: between a fragment's style prefix and suffix write_inner writes, for
\* Title, ESC]2; content ESC\ ; for Link(url), ESC]8;; url ESC\ content
\* ESC]8;;ESC\ ; for no annotation, the content; and never an SGR code.
C13_WriteInner ==
    (Single /\ returned = "Ok") =>
        LET s == single[1]
            inner == SubSeq(out, Len(write_prefix(s.style)) + 1,
                            Len(out) - Len(suffix(s.style)))
        IN  /\ inner = AnnotationWrapped(s.content, s.oscontrol)
            /\ \A k \in 1..Len(inner) : inner[k].kind # "sgr"

C13_Witness ==
    /\ Single
    /\ returned = "Ok"
    /\ single[1].oscontrol = Some(Link("u"))
    /\ ~is_plain(single[1].style)
    /\ Len(out) = 7

\* the SGR writes of an output and where they fall among the contents
Skeleton(o) ==
    LET Kept(t) == t.kind \in {"sgr", "content"}
        f == SelectSeq(o, Kept)
    IN  [i \in 1..Len(f) |-> IF f[i].kind = "sgr" THEN f[i] ELSE [kind |-> "content"]]

\* C14: a sequence and its twin (same styles, other contents, no annotation)
\* have the same style update records and the same SGR codes at every
\* position, so any two sequences with the same styles have.
C14_AnnotationsLeaveStylesAlone ==
    /\ style_updates = twin.seq.style_updates
    /\ Skeleton(out) = Skeleton(twin.pass.out)
    /\ last_is_plain = twin.pass.last_is_plain

C14_Witness ==
    /\ Rendered
    /\ Len(arg) = 3
    /\ arg[1].oscontrol = Some(Title)
    /\ arg[2].oscontrol = Some(Link("u"))
    /\ ~is_plain(arg[1].style)
    /\ arg[2].style # arg[1].style
    /\ out # twin.pass.out
    /\ \E k \in 1..Len(out) : out[k].kind = "sgr"

IsPrefixOf(a, b) == Len(a) <= Len(b) /\ a = SubSeq(b, 1, Len(a))

\* the writes the step about to be taken makes when none of them fails
StepWrites ==
    IF pc = "render"
    THEN IF WriteIter_next(Writing, Strings).item # None
         THEN loop_writes(Writing, Strings)
         ELSE trailing_reset(last_is_plain)
    ELSE <<>>

\* C15: when a write fails the render call returns the error at once: the
\* failing write is the last one attempted, the writes made before it stay,
\* and nothing is written or attempted after the call has returned the error.
C15_ErrorEndsTheCall ==
    [][ /\ IsPrefixOf(out, out')
        /\ (returned = "Err" => out' = out /\ attempts' = attempts)
        /\ (returned # "Err" /\ returned' = "Err") =>
              /\ pc' \in {"done", "single_done"}
              /\ LET w == IF pc = "render" THEN StepWrites ELSE single_writes(single'[1])
                 IN  \E k \in 0..(Len(w) - 1) :
                        /\ out' = out \o SubSeq(w, 1, k)
                        /\ attempts' = attempts + k + 1 ]_vars

C15_Witness ==
    /\ Rendered
    /\ returned = "Err"
    /\ Len(arg) = 3
    /\ Len(yielded) = 2
    /\ Len(out) = 3
    /\ attempts = 4

\* C16: rendering an empty sequence writes nothing and returns success, and a
\* rendering pass returns an error only when a write on the sink failed:
\* otherwise it returns success after one item per pushed fragment.
C16_NoFailureButTheSink ==
    Rendered =>
        /\ returned \in {"Ok", "Err"}
        /\ (returned = "Err" <=> attempts > Len(out))
        /\ (returned = "Ok" => Len(yielded) = Len(arg))
        /\ (arg = <<>> => out = <<>> /\ attempts = 0 /\ returned = "Ok")

C16_Witness ==
    /\ Rendered
    /\ arg = <<>>
    /\ out = <<>>
    /\ returned = "Ok"

\* C17: turned_on(before, after) equals turned_off(after, before) for
\* BoolStyle, bool, BoolColoring and FormatFlags.
C17_TurnedOnIsTurnedOffSwapped ==
    result.tag = "Turned" => result.on = result.off

C17_Witness ==
    /\ result.tag = "Turned"
    /\ result.on.style.formats = {"BOLD"}
    /\ result.on.coloring.foreground
    /\ ~result.on.coloring.background
    /\ result.on.bool

\* C18: in a chain of delta_next calls each delta is computed against the
\* style carried by the most recent PrefixUsing result of the chain, an Empty
\* result in between neither changing nor discarding it.
C18_ChainKeepsLastPrefix ==
    \A k \in 1..Len(chain) :
        LET earlier == { j \in 1..(k - 1) : chain[j].delta.tag = "PrefixUsing" }
        IN  earlier # {} =>
                LET last == CHOOSE j \in earlier : \A i \in earlier : i <= j
                IN  chain[k].delta = compute_delta(chain[last].delta.style, chain[k].next)

RECURSIVE TerminalAfter(_, _)
\* a terminal that has received the SGR writes among `tokens`
TerminalAfter(t, tokens) ==
    IF tokens = <<>> THEN t
    ELSE TerminalAfter(IF Head(tokens).kind = "sgr"
                       THEN ApplyCodes(t, Head(tokens).codes) ELSE t,
                       Tail(tokens))

\* C19: a terminal that starts plain shows, when each fragment's content is
\* written, the format flags and colours of that fragment's style.
C19_TerminalShowsEachStyle ==
    Rendered =>
        /\ Cardinality(ContentWrites) = Len(arg)
        /\ \A i \in 1..Len(arg) :
              TerminalAfter(Shows(StyleDefault), SubSeq(out, 1, ContentIdx(i)))
                  = Shows(arg[i].style)

\* C20: the command StyleIter yields for the k-th fragment is the command of
\* the record pushed together with that fragment.
C20_IterYieldsOwnRecord ==
    Rendered =>
        /\ Len(yielded) = Len(arg)
        /\ \A k \in 1..Len(arg) : yielded[k] = style_updates[k].command

-----------------------------------------------------------------------------
(* The claims on the chaining step and on the records push stores *)

\* the delta the k-th call of the chain was made on
PreviousDelta(k) == IF k = 1 THEN Empty ELSE chain[k - 1].delta

\* a style with no format flag and no colour
NoFlagNoColor(s) ==
    /\ s.formats = {}
    /\ s.coloring.fg = NoColor
    /\ s.coloring.bg = NoColor

\* C21: delta_next on an Empty delta returns PrefixUsing(next) when next is
\* not plain and Empty when next is plain.
C21_ChainFromEmpty ==
    \A k \in 1..Len(chain) :
        PreviousDelta(k) = Empty =>
            chain[k].delta = IF NoFlagNoColor(chain[k].next)
                             THEN Empty
                             ELSE PrefixUsing(chain[k].next)

\* the style of the fragment pushed before the k-th, plain before the first
StyleBefore(k) == IF k = 1 THEN StyleDefault ELSE arg[k - 1].style

\* C22: the record pushed with a fragment whose style equals the style of
\* the fragment before it is DoNothing, and a Prefix record stands only at a
\* position whose style differs from the style of the fragment before it
\* (from plain, at the first position).
C22_PrefixOnlyOnChange ==
    \A k \in 1..Len(style_updates) :
        /\ (k > 1 /\ arg[k].style = arg[k - 1].style) =>
               style_updates[k].command = DoNothing
        /\ style_updates[k].command.tag = "Prefix" =>
               arg[k].style # StyleBefore(k)

\* C23: the record of the first push into an empty sequence is DoNothing when
\* the fragment's style is plain and Prefix(that style) otherwise.
C23_FirstRecord ==
    Len(style_updates) >= 1 =>
        style_updates[1].command =
            IF NoFlagNoColor(arg[1].style)
            THEN [tag |-> "DoNothing"]
            ELSE [tag |-> "Prefix", style |-> arg[1].style]

C23_Witness ==
    /\ Len(style_updates) = 2
    /\ arg[1].style = StyleDefault
    /\ style_updates[1].command = DoNothing
    /\ arg[2].style # StyleDefault

\* C24: the record pushed with the k-th fragment, counting from 0, has
\* begins_at = k, the index of that fragment's content in contents.
C24_BeginsAtIsContentIndex ==
    \A k \in 1..Len(style_updates) :
        /\ contents[k] = arg[k].content
        /\ style_updates[k].begins_at = k - 1

\* C25: a call of compute_delta writes nothing on any output stream and
\* changes nothing but its return value.
C25_ComputeDeltaIsSilent ==
    Called => (stdout = <<>> /\ stderr = <<>>)

\* C26: a push only appends to contents, oscontrols and style_updates; a
\* rendering pass changes none of them; and a second pass over the same
\* sequence writes what the first wrote.
C26_AppendOnly ==
    [][ /\ IsPrefixOf(contents, contents')
        /\ IsPrefixOf(oscontrols, oscontrols')
        /\ IsPrefixOf(style_updates, style_updates')
        /\ pc' # "build" => UNCHANGED <<contents, oscontrols, style_updates>>
        /\ (pc' = "done" /\ first_out' # None) => out' = first_out'[1] ]_vars

C26_Witness ==
    /\ Rendered
    /\ first_out # None
    /\ Len(arg) = 3
    /\ out = first_out[1]
    /\ Len(out) >= 5
    /\ \E k \in 1..Len(out) : out[k].kind = "sgr"

\* C27: rendering the sequence of the one fragment s writes what s written
\* alone writes: its prefix, its annotation-wrapped content, its suffix.
C27_OneFragmentAsAlone ==
    (Rendered /\ Len(arg) = 1) =>
        out = write_prefix(arg[1].style)
              \o AnnotationWrapped(arg[1].content, arg[1].oscontrol)
              \o suffix(arg[1].style)

\* the contents written on the sink, in the order of their writes
ContentsWritten ==
    LET IsContent(t) == t.kind = "content"
        w == SelectSeq(out, IsContent)
    IN  [i \in 1..Len(w) |-> w[i].text]

\* C28: contents, style_updates and oscontrols all have the length of the
\* number of pushes; begins_at is strictly increasing; and a rendering pass
\* yields one item for each pushed fragment, in push order, and then ends.
C28_OneItemPerPush ==
    /\ Len(contents) = Len(arg)
    /\ Len(style_updates) = Len(arg)
    /\ Len(oscontrols) = Len(arg)
    /\ \A j, k \in 1..Len(style_updates) :
          j < k => style_updates[j].begins_at < style_updates[k].begins_at
    /\ pc = "render" => /\ Len(yielded) = content_cursor
                        /\ content_cursor <= Len(arg)
    /\ Rendered =>
          /\ Len(yielded) = Len(arg)
          /\ ContentsWritten = [i \in 1..Len(arg) |-> arg[i].content]
          /\ \A i \in 1..Len(arg) :
                arg[i].oscontrol # None =>
                    out[ContentIdx(i) - 1] =
                        IF arg[i].oscontrol[1].tag = "Title"
                        THEN [kind |-> "str", text |-> "ESC]2;"]
                        ELSE [kind |-> "str", text |-> "ESC\\"]

C28_Witness ==
    /\ Rendered
    /\ Len(arg) = 3
    /\ Len(yielded) = 3
    /\ style_updates[3].begins_at > style_updates[2].begins_at
    /\ arg[1].oscontrol = Some(Title)
    /\ arg[2].oscontrol = None
    /\ arg[3].oscontrol = Some(Link("u"))

====
